---- MODULE Spec2Model ----
(***************************************************************************)
(* A model of the demo backend in src/api:                                 *)
(*   main.py       the in-memory item store behind GET/POST /api/items     *)
(*   use_email.py  the OTP helper (pyotp TOTP verification) and the SMTP   *)
(*                 dispatch of a code                                       *)
(* The three parts share no state; each has its own specification          *)
(* (Spec, OtpSpec, MailSpec) over the module's variables.                  *)
(***************************************************************************)
EXTENDS Integers, Sequences, FiniteSets, TLC

VARIABLES
    items_db,    \* main.py: the module-level list of item dicts
    pc,          \* per request: where the request is in its life
    body,        \* per request: the JSON body as received
    item,        \* per request: the validated Item handed to the handler
    response,    \* per request: what the handler returned
    created,     \* history: the items appended by create_item, in handler order
    now,         \* use_email.py: the wall clock read by TOTP.verify (unix seconds)
    otp_base32,  \* User.otp_base32, the account's secret
    issued,      \* the code the authenticator last produced, and for which time
    verdict,     \* the outcome of the last verify_otp call
    mail_pc,     \* send_otp_email: position in the function
    mail_args,   \* send_otp_email: its arguments (email, otp)
    smtp_log,    \* the SMTP commands issued by the current call, in order
    relay,       \* messages the relay has accepted, over all calls
    mail_calls   \* number of send_otp_email calls started

item_vars == <<items_db, pc, body, item, response, created>>
otp_vars == <<now, otp_base32, issued, verdict>>
mail_vars == <<mail_pc, mail_args, smtp_log, relay, mail_calls>>
vars == <<items_db, pc, body, item, response, created,
          now, otp_base32, issued, verdict,
          mail_pc, mail_args, smtp_log, relay, mail_calls>>

\* ---------------------------------------------------------------- bounds
MaxRequests == 3      \* HTTP requests in one execution
MaxClockSteps == 3    \* clock advances in one execution
MaxMailCalls == 2     \* send_otp_email calls in one execution

\* ------------------------------------------------------------ JSON values
\* A JSON value as json.loads hands it to pydantic. A string is the sequence
\* of its characters; a float n + d/10 keeps one decimal digit.
JInt(n) == [t |-> "int", n |-> n, d |-> 0, s |-> <<>>]
JFloat(n, d) == [t |-> "float", n |-> n, d |-> d, s |-> <<>>]
JStr(chars) == [t |-> "str", n |-> 0, d |-> 0, s |-> chars]
JNull == [t |-> "null", n |-> 0, d |-> 0, s |-> <<>>]
JMissing == [t |-> "missing", n |-> 0, d |-> 0, s |-> <<>>]

Digits == <<"0", "1", "2", "3", "4", "5", "6", "7", "8", "9">>
IsDigit(ch) == \E k \in 1..10 : Digits[k] = ch
DigitVal(ch) == (CHOOSE k \in 1..10 : Digits[k] = ch) - 1

RECURSIVE DecimalValue(_)
DecimalValue(chars) ==
    IF Len(chars) = 0 THEN 0
    ELSE 10 * DecimalValue(SubSeq(chars, 1, Len(chars) - 1)) + DigitVal(chars[Len(chars)])

AllDigits(chars) == Len(chars) > 0 /\ \A k \in 1..Len(chars) : IsDigit(chars[k])

\* int(str): an optional sign, then digits only
IsNumericStr(chars) ==
    /\ Len(chars) > 0
    /\ IF chars[1] \in {"-", "+"} THEN AllDigits(Tail(chars)) ELSE AllDigits(chars)
ParseInt(chars) ==
    IF chars[1] = "-" THEN 0 - DecimalValue(Tail(chars))
    ELSE IF chars[1] = "+" THEN DecimalValue(Tail(chars))
    ELSE DecimalValue(chars)

\* ------------------------------------------------------------------ Item
\* A validator that truncates a fractional number instead of rejecting it.
ValueOkTruncating(v) ==
    \/ v.t = "int"
    \/ v.t = "str" /\ IsNumericStr(v.s)
    \/ v.t = "float"

\* class Item(BaseModel): name: str; value: int  -- pydantic v2 (model_dump),
\* default (lax) mode: a str field takes only a str; an int field takes an int,
\* a numeric string, or a float with no fractional part, and converts it.
NameOk(v) == v.t = "str"
ValueOk(v) ==
    \/ v.t = "int"
    \/ v.t = "str" /\ IsNumericStr(v.s)
    \/ v.t = "float" /\ v.d = 0
CoerceValue(v) ==
    IF v.t = "str" THEN ParseInt(v.s) ELSE v.n

ItemValidates(b) == NameOk(b.name) /\ ValueOk(b.value)
Item(b) == [name |-> b.name.s, value |-> CoerceValue(b.value)]

\* item.model_dump(): the dict of the model's fields
model_dump(it) == [name |-> it.name, value |-> it.value]

\* ------------------------------------------------------------ item store
ItemOne == <<"I", "t", "e", "m", " ", "1">>
ItemTwo == <<"I", "t", "e", "m", " ", "2">>
Widget == <<"W", "i", "d", "g", "e", "t">>

SeedItems == <<[name |-> ItemOne, value |-> 10], [name |-> ItemTwo, value |-> 20]>>

\* The request bodies a client may POST.
Bodies ==
    { [name |-> JStr(Widget), value |-> JInt(5)],
      [name |-> JStr(ItemTwo), value |-> JStr(<<"2", "0">>)],
      [name |-> JStr(<<>>), value |-> JStr(<<"-", "7">>)],
      [name |-> JStr(Widget), value |-> JFloat(3, 0)],
      [name |-> JStr(Widget), value |-> JStr(<<"a", "b", "c">>)],
      [name |-> JStr(Widget), value |-> JFloat(2, 5)],
      [name |-> JStr(Widget), value |-> JNull],
      [name |-> JStr(Widget), value |-> JMissing],
      [name |-> JMissing, value |-> JInt(5)],
      [name |-> JInt(7), value |-> JInt(5)] }

NoBody == [name |-> JMissing, value |-> JMissing]
NoItem == [name |-> <<>>, value |-> 0]
NoResponse == [kind |-> "none", message |-> "", items |-> <<>>, item |-> NoItem]

Requests == 1..MaxRequests

\* Variants of the store operations with a fault seeded, used to show that a
\* property depends on the operation it is about.
AppendDictFront(db, d) == <<d>> \o db
AppendDictUnique(db, d) == IF \E k \in 1..Len(db) : db[k] = d THEN db ELSE Append(db, d)
get_items_reversed(db) == [k \in 1..Len(db) |-> db[Len(db) + 1 - k]]
create_item_db_replace(db, it) == Append(SubSeq(db, 1, Len(db) - 1), [name |-> it.name, value |-> it.value])

\* items_db.append(d)
AppendDict(db, d) == Append(db, d)

\* get_items(): return items_db
get_items(db) == db

\* create_item(item): items_db.append(item.model_dump()); return {message, item}
create_item_db(db, it) == AppendDict(db, model_dump(it))
create_item_response(it) ==
    [kind |-> "created", message |-> "Item created", items |-> <<>>, item |-> it]

\* A GET request arrives; it has no body to read or validate.
ReceiveGet(r) ==
    /\ pc[r] = "idle"
    /\ pc' = [pc EXCEPT ![r] = "get"]
    /\ UNCHANGED <<items_db, body, item, response, created, otp_vars, mail_vars>>

\* A POST request arrives with some JSON body.
ReceivePost(r) ==
    /\ pc[r] = "idle"
    /\ \E b \in Bodies : body' = [body EXCEPT ![r] = b]
    /\ pc' = [pc EXCEPT ![r] = "received"]
    /\ UNCHANGED <<items_db, item, response, created, otp_vars, mail_vars>>

\* The framework builds the Item parameter from the body: on success the handler
\* is scheduled with it, on failure the request ends with a 422 and the handler
\* is never called.
Validate(r) ==
    /\ pc[r] = "received"
    /\ IF ItemValidates(body[r])
       THEN /\ item' = [item EXCEPT ![r] = Item(body[r])]
            /\ pc' = [pc EXCEPT ![r] = "validated"]
            /\ response' = response
       ELSE /\ item' = item
            /\ pc' = [pc EXCEPT ![r] = "rejected"]
            /\ response' = [response EXCEPT ![r] = [NoResponse EXCEPT !.kind = "validation_error"]]
    /\ UNCHANGED <<items_db, body, created, otp_vars, mail_vars>>

\* The body of get_items: one step of the event loop (no await inside). The
\* response is the list as it is when the handler returns.
GetItems(r) ==
    /\ pc[r] = "get"
    /\ response' = [response EXCEPT ![r] = [NoResponse EXCEPT !.kind = "items", !.items = get_items(items_db)]]
    /\ pc' = [pc EXCEPT ![r] = "done"]
    /\ UNCHANGED <<items_db, body, item, created, otp_vars, mail_vars>>

\* The body of create_item: one step of the event loop (an async def with no
\* await inside, around a single list.append).
CreateItem(r) ==
    /\ pc[r] = "validated"
    /\ items_db' = create_item_db(items_db, item[r])
    /\ response' = [response EXCEPT ![r] = create_item_response(item[r])]
    /\ created' = Append(created, r)
    /\ pc' = [pc EXCEPT ![r] = "done"]
    /\ UNCHANGED <<body, item, otp_vars, mail_vars>>

ItemInit ==
    /\ items_db = SeedItems
    /\ pc = [r \in Requests |-> "idle"]
    /\ body = [r \in Requests |-> NoBody]
    /\ item = [r \in Requests |-> NoItem]
    /\ response = [r \in Requests |-> NoResponse]
    /\ created = <<>>

\* ------------------------------------------------- 32-bit word arithmetic
\* SHA-1 works on 32-bit words; a word is kept as <<high 16 bits, low 16 bits>>
\* so that no intermediate value leaves TLC's integer range.
RECURSIVE AndN(_, _, _)
AndN(a, b, n) ==
    IF n = 0 THEN 0
    ELSE (a % 2) * (b % 2) + 2 * AndN(a \div 2, b \div 2, n - 1)

And16(a, b) == AndN(a, b, 16)
Xor16(a, b) == a + b - 2 * And16(a, b)
Not16(a) == 65535 - a
Xor8(a, b) == a + b - 2 * AndN(a, b, 8)

WAnd(u, v) == <<And16(u[1], v[1]), And16(u[2], v[2])>>
WXor(u, v) == <<Xor16(u[1], v[1]), Xor16(u[2], v[2])>>
WNot(u) == <<Not16(u[1]), Not16(u[2])>>
WAdd(u, v) ==
    LET lo == u[2] + v[2]
    IN  <<(u[1] + v[1] + (lo \div 65536)) % 65536, lo % 65536>>

RECURSIVE Pow2(_)
Pow2(n) == IF n = 0 THEN 1 ELSE 2 * Pow2(n - 1)

\* rotate left by n bits, 0 < n < 32
RotlSmall(u, n) ==
    <<((u[1] * Pow2(n)) % 65536) + (u[2] \div Pow2(16 - n)),
      ((u[2] * Pow2(n)) % 65536) + (u[1] \div Pow2(16 - n))>>
Rotl(u, n) == IF n < 16 THEN RotlSmall(u, n) ELSE RotlSmall(<<u[2], u[1]>>, n - 16)

\* ------------------------------------------------------------------ SHA-1
\* hashlib.sha1, FIPS 180-4: the digest pyotp's OTP class uses by default.
ShaF(t, b, c, d) ==
    IF t < 20 THEN WXor(WAnd(b, c), WAnd(WNot(b), d))
    ELSE IF t < 40 THEN WXor(WXor(b, c), d)
    ELSE IF t < 60 THEN WXor(WXor(WAnd(b, c), WAnd(b, d)), WAnd(c, d))
    ELSE WXor(WXor(b, c), d)

ShaK(t) ==
    IF t < 20 THEN <<23170, 31129>>         \* 5A827999
    ELSE IF t < 40 THEN <<28377, 60321>>    \* 6ED9EBA1
    ELSE IF t < 60 THEN <<36635, 48348>>    \* 8F1BBCDC
    ELSE <<51810, 49622>>                   \* CA62C1D6

\* 67452301 EFCDAB89 98BADCFE 10325476 C3D2E1F0
ShaInit == <<<<26437, 8961>>, <<61389, 43913>>, <<39098, 56574>>, <<4146, 21622>>, <<50130, 57840>>>>

\* The message schedule: the 16 words of a block extended to n words. The
\* recursion halves the work so that its depth stays logarithmic; Len(w) makes
\* TLC finish one half before it starts the next.
ScheduleWord(w) ==
    LET n == Len(w) + 1
    IN  Rotl(WXor(WXor(w[n - 3], w[n - 8]), WXor(w[n - 14], w[n - 16])), 1)

RECURSIVE Schedule(_, _)
Schedule(w, n) ==
    IF Len(w) >= n THEN w
    ELSE IF Len(w) + 1 = n THEN Append(w, ScheduleWord(w))
    ELSE Schedule(Schedule(w, (Len(w) + n) \div 2), n)

\* One round on the working variables <<a, b, c, d, e>>.
Round(w, s, t) ==
    <<WAdd(WAdd(WAdd(Rotl(s[1], 5), ShaF(t, s[2], s[3], s[4])), WAdd(s[5], ShaK(t))), w[t + 1]),
      s[1], Rotl(s[2], 30), s[3], s[4]>>

\* Rounds from..to-1, halved like the schedule.
RECURSIVE Rounds(_, _, _, _)
Rounds(w, s, from, to) ==
    IF Len(s) # 5 \/ from >= to THEN s
    ELSE IF from + 1 = to THEN Round(w, s, from)
    ELSE Rounds(w, Rounds(w, s, from, (from + to) \div 2), (from + to) \div 2, to)

Compress(h, block) ==
    LET r == Rounds(Schedule(block, 80), h, 0, 80)
    IN  <<WAdd(h[1], r[1]), WAdd(h[2], r[2]), WAdd(h[3], r[3]), WAdd(h[4], r[4]), WAdd(h[5], r[5])>>

Zeros(n) == [i \in 1..n |-> 0]

BytesToWords(bs) ==
    [i \in 1..(Len(bs) \div 4) |->
        <<bs[4 * i - 3] * 256 + bs[4 * i - 2], bs[4 * i - 1] * 256 + bs[4 * i]>>]

WordsToBytes(ws) ==
    [i \in 1..(4 * Len(ws)) |->
        LET wd == ws[(i + 3) \div 4]
            k == (i - 1) % 4
        IN  IF k = 0 THEN wd[1] \div 256
            ELSE IF k = 1 THEN wd[1] % 256
            ELSE IF k = 2 THEN wd[2] \div 256
            ELSE wd[2] % 256]

\* Padding of a message shorter than 8192 bytes: 0x80, zeros, the bit length.
ShaPad(msg) ==
    LET n == Len(msg)
        bits == n * 8
    IN  msg \o <<128>> \o Zeros((119 - n) % 64) \o
        <<0, 0, 0, 0, 0, 0, bits \div 256, bits % 256>>

RECURSIVE ShaBlocks(_, _)
ShaBlocks(h, ws) ==
    IF Len(ws) = 0 THEN h
    ELSE ShaBlocks(Compress(h, SubSeq(ws, 1, 16)), SubSeq(ws, 17, Len(ws)))

Sha1(msg) == WordsToBytes(ShaBlocks(ShaInit, BytesToWords(ShaPad(msg))))

\* hmac.new(key, msg, sha1).digest(), for a key of at most 64 bytes
HmacSha1(key, msg) ==
    LET k == key \o Zeros(64 - Len(key))
        ipad == [i \in 1..64 |-> Xor8(k[i], 54)]
        opad == [i \in 1..64 |-> Xor8(k[i], 92)]
    IN  Sha1(opad \o Sha1(ipad \o msg))

\* ----------------------------------------------------------------- base32
B32Alphabet ==
    <<"A", "B", "C", "D", "E", "F", "G", "H", "I", "J", "K", "L", "M", "N", "O", "P",
      "Q", "R", "S", "T", "U", "V", "W", "X", "Y", "Z", "2", "3", "4", "5", "6", "7">>
IsB32Char(ch) == \E k \in 1..32 : B32Alphabet[k] = ch
B32Val(ch) == (CHOOSE k \in 1..32 : B32Alphabet[k] = ch) - 1

\* The 40-bit value of 8 base32 characters, as its 5 bytes. The value is kept
\* in two halves (20 bits each).
B32Group(g) ==
    LET hi == ((B32Val(g[1]) * 32 + B32Val(g[2])) * 32 + B32Val(g[3])) * 32 + B32Val(g[4])
        lo == ((B32Val(g[5]) * 32 + B32Val(g[6])) * 32 + B32Val(g[7])) * 32 + B32Val(g[8])
    IN  <<hi \div 4096, (hi \div 16) % 256, (hi % 16) * 16 + (lo \div 65536),
          (lo \div 256) % 256, lo % 256>>

RECURSIVE B32Decode(_)
B32Decode(chars) ==
    IF Len(chars) = 0 THEN <<>>
    ELSE B32Group(SubSeq(chars, 1, 8)) \o B32Decode(SubSeq(chars, 9, Len(chars)))

\* ------------------------------------------------------------ pyotp.TOTP
\* User.otp_base32 = None: no secret. (Kept as a sequence, like a secret, with
\* one element that is no character.)
NoSecret == <<"None">>
TotpInterval == 30
TotpDigits == 6

\* OTP.byte_secret(): base64.b32decode(secret) -- raises on None (no len) and
\* on a character outside the alphabet. Secrets here are whole 8-character
\* groups, so no "=" padding is involved.
SecretDecodes(secret) ==
    /\ secret # NoSecret
    /\ Len(secret) % 8 = 0
    /\ \A k \in 1..Len(secret) : IsB32Char(secret[k])
byte_secret(secret) == B32Decode(secret)

\* struct.pack(">Q", counter) for a counter below 2^31
IntToBytestring(c) ==
    <<0, 0, 0, 0, c \div 16777216, (c \div 65536) % 256, (c \div 256) % 256, c % 256>>

\* str_code.rjust(digits, "0")
RECURSIVE ZeroPad(_, _)
ZeroPad(n, width) ==
    IF width = 0 THEN <<>>
    ELSE Append(ZeroPad(n \div 10, width - 1), Digits[(n % 10) + 1])

\* OTP.generate_otp(counter): RFC 4226 dynamic truncation of the HMAC
generate_otp(secret, counter) ==
    LET h == HmacSha1(byte_secret(secret), IntToBytestring(counter))
        o == h[20] % 16
        v == (h[o + 1] % 128) * 16777216 + h[o + 2] * 65536 + h[o + 3] * 256 + h[o + 4]
    IN  ZeroPad(v % 1000000, TotpDigits)

\* TOTP.timecode(for_time)
timecode(t) == t \div TotpInterval

\* The secrets and clock readings of the model. JBSWY3DPEHPK3PXP has, at the
\* two start times, a time step whose code equals the code two steps later
\* (1706553000) and one whose code equals the next step's (1687378770).
SecretA == <<"J", "B", "S", "W", "Y", "3", "D", "P", "E", "H", "P", "K", "3", "P", "X", "P">>
SecretB == <<"G", "E", "Z", "D", "G", "N", "B", "V", "G", "Y", "3", "T", "Q", "O", "J", "Q">>
BadSecret == <<"J", "B", "S", "W", "Y", "3", "D", "P", "E", "H", "P", "K", "3", "P", "X", "1">>
SecretPool == {SecretA, SecretB}
StartTimes == {1706553000, 1687378770}
ClockAdvances == {15, 30}
DeviceSkews == {0 - 30, 0, 30}

Elapsed(t) == t - (CHOOSE e \in StartTimes : t >= e /\ t - e < 1000000)
ModelCounters ==
    UNION { timecode(e) - 1 .. timecode(e) + MaxClockSteps + 1 : e \in StartTimes }

\* The codes of the model's secrets and time steps, <<secret, counter, code>>,
\* computed once.
TotpCodes == { <<s, c, generate_otp(s, c)>> : s \in SecretPool, c \in ModelCounters }

\* TOTP.at(for_time)
TotpAt(secret, t) == (CHOOSE e \in TotpCodes : e[1] = secret /\ e[2] = timecode(t))[3]

\* utils.strings_equal(str(otp), str(self.at(for_time)))
strings_equal(a, b) == a = b

\* Variants of verify_otp with a fault seeded: a counter that is one step
\* ahead, a tolerance window of one step (valid_window = 1), and a token that
\* is converted with int() before the comparison.
verify_otp_next_step(otp_secret, token, t) ==
    IF ~SecretDecodes(otp_secret) THEN "raise"
    ELSE IF strings_equal(token, TotpAt(otp_secret, t + TotpInterval)) THEN "True"
    ELSE "False"
verify_otp_window(otp_secret, token, t) ==
    IF ~SecretDecodes(otp_secret) THEN "raise"
    ELSE IF \E i \in {0 - 1, 0, 1} : strings_equal(token, TotpAt(otp_secret, t + i * TotpInterval))
         THEN "True"
    ELSE "False"
verify_otp_int_token(otp_secret, token, t) ==
    IF ~SecretDecodes(otp_secret) \/ ~AllDigits(token) THEN "raise"
    ELSE IF strings_equal(token, TotpAt(otp_secret, t)) THEN "True"
    ELSE "False"

\* verify_otp(otp_secret, token): pyotp.TOTP(otp_secret).verify(token), with
\* for_time = datetime.now() and the default valid_window = 0. The outcome is
\* "True", "False", or "raise" when an exception leaves the function.
verify_otp(otp_secret, token, t) ==
    IF ~SecretDecodes(otp_secret) THEN "raise"
    ELSE IF strings_equal(token, TotpAt(otp_secret, t)) THEN "True"
    ELSE "False"

\* generate_otp_secret(): pyotp.random_base32(), some well-formed secret
generate_otp_secret == SecretPool

NoCode == [code |-> <<>>, at |-> 0]
NoVerdict == [secret |-> NoSecret, token |-> <<>>, at |-> 0, result |-> "none"]

\* The account is given a fresh secret.
Enrol ==
    /\ otp_base32 = NoSecret
    /\ \E s \in generate_otp_secret : otp_base32' = s
    /\ UNCHANGED <<now, issued, verdict, item_vars, mail_vars>>

\* User.otp_base32 is a plain str field: a secret that did not come from
\* generate_otp_secret may be stored in it.
StoreSecret ==
    /\ otp_base32 = NoSecret
    /\ otp_base32' = BadSecret
    /\ UNCHANGED <<now, issued, verdict, item_vars, mail_vars>>

\* The user's authenticator, whose clock is off by skew, shows the current code.
Authenticator(skew) ==
    /\ SecretDecodes(otp_base32)
    /\ issued' = [code |-> TotpAt(otp_base32, now + skew), at |-> now + skew]
    /\ UNCHANGED <<now, otp_base32, verdict, item_vars, mail_vars>>

\* What a user may submit: the code shown, nothing, a shortened code, a guess.
Tokens ==
    {issued.code, <<>>, <<"0", "0", "0", "0", "0", "0">>}
        \cup (IF issued = NoCode THEN {} ELSE {Tail(issued.code)})

VerifyOtp(token) ==
    /\ verdict' = [secret |-> otp_base32, token |-> token, at |-> now,
                   result |-> verify_otp(otp_base32, token, now)]
    /\ UNCHANGED <<now, otp_base32, issued, item_vars, mail_vars>>

Tick(d) ==
    /\ Elapsed(now) + d <= MaxClockSteps * TotpInterval
    /\ now' = now + d
    /\ UNCHANGED <<otp_base32, issued, verdict, item_vars, mail_vars>>

OtpInit ==
    /\ now \in StartTimes
    /\ otp_base32 = NoSecret
    /\ issued = NoCode
    /\ verdict = NoVerdict

OtpNext ==
    \/ Enrol
    \/ StoreSecret
    \/ \E skew \in DeviceSkews : Authenticator(skew)
    \/ \E token \in Tokens : VerifyOtp(token)
    \/ \E d \in ClockAdvances : Tick(d)

\* ------------------------------------------------------- send_otp_email
SmtpPort == 587

\* Variants with a fault seeded: the STARTTLS upgrade left out, and a failed
\* call swallowed (as by "except: pass") instead of propagated.
SmtpProgramNoTls == <<"connect", "login", "send_message", "quit">>
AfterCallSwallow(ok, issued_so_far) ==
    IF issued_so_far = 5 THEN "returned" ELSE "running"

\* The SMTP calls of send_otp_email in statement order (lines 34-38): the
\* constructor connects, then starttls, login, send_message, quit.
SmtpProgram == <<"connect", "starttls", "login", "send_message", "quit">>

\* No statement is inside a try: an exception raised by a call leaves the
\* function at once; otherwise control goes to the next statement, and past the
\* last one the function returns.
AfterCall(ok, issued_so_far) ==
    IF ~ok THEN "raised"
    ELSE IF issued_so_far = Len(SmtpProgram) THEN "returned"
    ELSE "running"

\* The email argument, as the addresses of the To header it becomes.
Alice == "alice@example.com"
Bob == "bob@example.com"
Emails == {<<Alice>>, <<Alice, Bob>>}
OtpArgs == {<<"2", "5", "6", "8", "4", "7">>, <<"0", "0", "7", "1", "2", "3">>}

\* msg = EmailMessage(); set_content(f"Your OTP code is: {otp}"); Subject, From, To
ComposeMessage(email, otp) ==
    [content |-> <<"Your OTP code is: ", otp>>,
     subject |-> "Your Authentication Code",
     from |-> "noreply@yourapp.com",
     to |-> email]

Range(f) == {f[k] : k \in DOMAIN f}
NextCommand ==
    IF Len(smtp_log) < Len(SmtpProgram) THEN SmtpProgram[Len(smtp_log) + 1] ELSE "none"
LogEntry(cmd, ok) == [cmd |-> cmd, port |-> SmtpPort, ok |-> ok]

SendOtpEmail(email, otp) ==
    /\ mail_pc \in {"idle", "returned", "raised"}
    /\ mail_calls < MaxMailCalls
    /\ mail_calls' = mail_calls + 1
    /\ mail_args' = ComposeMessage(email, otp)
    /\ smtp_log' = <<>>
    /\ mail_pc' = "running"
    /\ UNCHANGED <<relay, item_vars, otp_vars>>

\* One of connect, starttls, login, quit: the relay answers ok or not. Each is
\* reached only when it is the next statement of the running call.
SmtpCall(cmd, ok) ==
    /\ smtp_log' = Append(smtp_log, LogEntry(cmd, ok))
    /\ mail_pc' = AfterCall(ok, Len(smtp_log) + 1)
    /\ UNCHANGED <<mail_args, relay, mail_calls, item_vars, otp_vars>>

Connect(ok) ==
    /\ mail_pc = "running"
    /\ NextCommand = "connect"
    /\ SmtpCall("connect", ok)

StartTls(ok) ==
    /\ mail_pc = "running"
    /\ NextCommand = "starttls"
    /\ SmtpCall("starttls", ok)

Login(ok) ==
    /\ mail_pc = "running"
    /\ NextCommand = "login"
    /\ SmtpCall("login", ok)

Quit(ok) ==
    /\ mail_pc = "running"
    /\ NextCommand = "quit"
    /\ SmtpCall("quit", ok)


\* server.send_message(msg): the relay may refuse the sender or the data, and
\* accepts some of the recipients. smtplib raises unless at least one recipient
\* and the data were accepted; the dict of refused recipients it returns
\* otherwise is dropped by send_otp_email.
SendMessage(sender_ok, accepted, data_ok) ==
    /\ mail_pc = "running"
    /\ NextCommand = "send_message"
    /\ LET ok == sender_ok /\ accepted # {} /\ data_ok
       IN  /\ smtp_log' = Append(smtp_log, LogEntry("send_message", ok))
           /\ mail_pc' = AfterCall(ok, Len(smtp_log) + 1)
           /\ relay' = IF ok
                       THEN Append(relay, [call |-> mail_calls, rcpt |-> accepted, msg |-> mail_args])
                       ELSE relay
    /\ UNCHANGED <<mail_args, mail_calls, item_vars, otp_vars>>

NoMessage == ComposeMessage(<<>>, <<>>)

MailInit ==
    /\ mail_pc = "idle"
    /\ mail_args = NoMessage
    /\ smtp_log = <<>>
    /\ relay = <<>>
    /\ mail_calls = 0

MailNext ==
    \/ \E email \in Emails, otp \in OtpArgs : SendOtpEmail(email, otp)
    \/ \E ok \in BOOLEAN : Connect(ok)
    \/ \E ok \in BOOLEAN : StartTls(ok)
    \/ \E ok \in BOOLEAN : Login(ok)
    \/ \E sender_ok \in BOOLEAN, data_ok \in BOOLEAN :
           \E accepted \in SUBSET Range(mail_args.to) : SendMessage(sender_ok, accepted, data_ok)
    \/ \E ok \in BOOLEAN : Quit(ok)

\* ----------------------------------------- the parts a specification leaves idle
OtpIdle ==
    /\ now = 0
    /\ otp_base32 = NoSecret
    /\ issued = NoCode
    /\ verdict = NoVerdict

\* ---------------------------------------------------------- specifications
Init == ItemInit /\ OtpIdle /\ MailInit
Next ==
    \E r \in Requests :
        \/ ReceiveGet(r)
        \/ ReceivePost(r)
        \/ Validate(r)
        \/ GetItems(r)
        \/ CreateItem(r)
Spec == Init /\ [][Next]_vars

OtpSpecInit == ItemInit /\ OtpInit /\ MailInit
OtpSpec == OtpSpecInit /\ [][OtpNext]_vars

MailSpecInit == ItemInit /\ OtpIdle /\ MailInit
MailSpec == MailSpecInit /\ [][MailNext]_vars

\* ================================================================ properties
IsPrefix(a, b) == Len(a) <= Len(b) /\ SubSeq(b, 1, Len(a)) = a
Count(seq, x) == Cardinality({k \in 1..Len(seq) : seq[k] = x})
Completed(r) == pc[r] \in {"done", "rejected"}
Created(r) == response[r].kind = "created"
\* a body that already is an Item: a string name and an integer value
IsItem(b) == b.name.t = "str" /\ b.value.t = "int"
AsItem(b) == [name |-> b.name.s, value |-> b.value.n]

\* ---- Spec: the item store

\* C1: for every valid item i (name a string, value an integer), the step in
\* which create_item(i) runs leaves a list, as get_items returns it, whose last
\* element is i and whose length is one greater than before.
C1_CreateAppendsLast ==
    [][\A r \in Requests :
          (pc[r] = "validated" /\ pc'[r] = "done" /\ IsItem(body[r])) =>
              /\ Len(get_items(items_db')) = Len(get_items(items_db)) + 1
              /\ get_items(items_db')[Len(get_items(items_db'))] = AsItem(body[r])]_vars
C1_Witness ==
    \E r \in Requests :
        /\ Created(r) /\ IsItem(body[r])
        /\ Len(items_db) = Len(SeedItems) + 1
        /\ items_db[Len(items_db)] = AsItem(body[r])

\* C2 as stated: a request whose body lacks a field or whose value is not a
\* JSON integer never gets past validation.
C2_NonIntegerRejected ==
    \A r \in Requests :
        (pc[r] # "idle" /\ body[r] # NoBody /\ ~IsItem(body[r])) => pc[r] \in {"received", "rejected"}

\* a body pydantic cannot turn into an Item: a missing or non-string name, a
\* missing or null value, a string that is not a number, a fractional number
Unconvertible(b) ==
    \/ b.name.t # "str"
    \/ b.value.t \in {"missing", "null"}
    \/ b.value.t = "str" /\ ~IsNumericStr(b.value.s)
    \/ b.value.t = "float" /\ b.value.d # 0

\* C2, amended: a request whose body cannot be converted to an Item (a missing
\* field, a non-string name, a value that is null, a non-numeric string or a
\* fractional number) ends with a validation error, its handler never runs,
\* and the step that rejects it leaves the list as it was. (A numeric string
\* or a whole float is converted and stored.)
C2_UnconvertibleRejected ==
    [][\A r \in Requests :
          (pc[r] \in {"received", "rejected"} /\ Unconvertible(body[r])) =>
              /\ pc'[r] \in {"received", "rejected"}
              /\ pc'[r] # pc[r] =>
                    /\ pc'[r] = "rejected"
                    /\ response'[r].kind = "validation_error"
                    /\ items_db' = items_db]_vars
C2_Witness ==
    \E r \in Requests :
        /\ pc[r] = "rejected"
        /\ body[r].value.t = "float" /\ body[r].value.d # 0
        /\ response[r].kind = "validation_error"
        /\ items_db = SeedItems

\* the items of the requests in created, in that order
CreatedItems == [k \in 1..Len(created) |-> [name |-> item[created[k]].name, value |-> item[created[k]].value]]

\* C3: what get_items returns is the two seed items followed by every created
\* item in the order the creates ran, each once; what a GET returned earlier is
\* the seeds followed by the items created until then.
C3_SeedsThenCreatesInOrder ==
    /\ get_items(items_db) = SeedItems \o CreatedItems
    /\ SeedItems = <<[name |-> ItemOne, value |-> 10], [name |-> ItemTwo, value |-> 20]>>
    /\ \A r \in Requests : Created(r) <=> \E k \in 1..Len(created) : created[k] = r
    /\ \A j, k \in 1..Len(created) : created[j] = created[k] => j = k
    /\ \A r \in Requests :
          response[r].kind = "items" =>
              /\ IsPrefix(SeedItems, response[r].items)
              /\ IsPrefix(response[r].items, SeedItems \o CreatedItems)
C3_Witness ==
    /\ Len(created) = 2
    /\ item[created[1]] # item[created[2]]
    /\ \E r \in Requests : response[r].kind = "items" /\ Len(response[r].items) = 4

\* C7: once every request has completed, each item is in the list exactly as
\* often as it is among the seeds plus once per create_item that succeeded with
\* it, whatever the interleaving of the requests was.
C7_NoLostUpdate ==
    (\A r \in Requests : Completed(r)) =>
        \A r \in Requests :
            Created(r) =>
                Count(items_db, item[r]) =
                    Count(SeedItems, item[r])
                        + Cardinality({q \in Requests : Created(q) /\ item[q] = item[r]})
C7_Witness ==
    /\ \A r \in Requests : Completed(r)
    /\ \E q, r \in Requests :
          /\ q < r /\ Created(q) /\ Created(r) /\ item[q] = item[r]
          /\ \E j, k \in 1..Len(created) : j < k /\ created[j] = r /\ created[k] = q

\* C8: in every step the list before is a prefix of the list after: nothing is
\* removed, changed or reordered.
C8_AppendOnly == [][IsPrefix(items_db, items_db')]_vars
C8_Witness ==
    /\ Len(items_db) = Len(SeedItems) + 2
    /\ \E r \in Requests : pc[r] = "rejected"

\* ---- OtpSpec: verify_otp

\* the last verification was of the code the authenticator shows
VerifiedIssued ==
    /\ verdict.result # "none"
    /\ issued # NoCode
    /\ verdict.secret = otp_base32
    /\ verdict.token = issued.code

\* C4 as stated: the code generated for (S, t) verifies at t and fails at
\* t + 2 * 30.
C4_TrueNowFalseTwoStepsLater ==
    VerifiedIssued =>
        /\ verdict.at = issued.at => verdict.result = "True"
        /\ verdict.at = issued.at + 2 * TotpInterval => verdict.result = "False"

\* C4, amended: the code generated for (S, t) verifies at t; at t + 2 * 30 it
\* fails unless the code of that later time step is the same six digits.
C4_TrueNowFalseLaterUnlessEqual ==
    VerifiedIssued =>
        /\ verdict.at = issued.at => verdict.result = "True"
        /\ verdict.at = issued.at + 2 * TotpInterval =>
              verdict.result = (IF TotpAt(otp_base32, verdict.at) = issued.code THEN "True" ELSE "False")
C4_Witness ==
    /\ VerifiedIssued
    /\ verdict.at = issued.at + 2 * TotpInterval
    /\ verdict.result = "False"

\* C5 as stated: verify_otp never ends in an exception.
C5_NeverRaises == verdict.result # "raise"

\* C5, amended: with a well-formed base32 secret verify_otp returns a boolean for
\* every token, and False for an empty, shortened or otherwise non-matching
\* one. (With the secret None or not base32 the exception of the decoding
\* leaves verify_otp.)
C5_FalseNotRaiseForGoodSecret ==
    (verdict.result # "none" /\ verdict.secret \in SecretPool) =>
        /\ verdict.result \in {"True", "False"}
        /\ Len(verdict.token) # TotpDigits => verdict.result = "False"
C5_Witness ==
    /\ verdict.secret \in SecretPool
    /\ verdict.token = <<>>
    /\ verdict.result = "False"

\* C9: a code of the time step before or after the current one, different
\* from the current step's code, is rejected.
C9_AdjacentStepRejected ==
    (/\ VerifiedIssued
     /\ timecode(issued.at) \in {timecode(verdict.at) - 1, timecode(verdict.at) + 1}
     /\ issued.code # TotpAt(otp_base32, verdict.at))
        => verdict.result = "False"
C9_Witness ==
    /\ VerifiedIssued
    /\ timecode(issued.at) = timecode(verdict.at) + 1
    /\ verdict.result = "False"

\* ---- MailSpec: send_otp_email

C10_SmtpOrder ==
    /\ IsPrefix([k \in 1..Len(smtp_log) |-> smtp_log[k].cmd],
                <<"connect", "starttls", "login", "send_message", "quit">>)
    /\ \A k \in 2..Len(smtp_log) : smtp_log[k - 1].ok
    /\ Len(smtp_log) >= 1 => smtp_log[1].port = 587
    /\ \A c \in 1..mail_calls : Cardinality({k \in 1..Len(relay) : relay[k].call = c}) <= 1
    /\ mail_pc = "returned" =>
          Cardinality({k \in 1..Len(smtp_log) : smtp_log[k].cmd = "send_message"}) = 1
C10_Witness ==
    /\ mail_pc = "returned"
    /\ Len(smtp_log) = 5
    /\ relay # <<>>
====
